---------------------------- MODULE Spec2Model ----------------------------
(***************************************************************************)
(* Model of src/index.js (class Client): the token cache of requestToken,  *)
(* the promise built by requestKey, and the length-prefixed padding codec  *)
(* of encrypt / decrypt.                                                   *)
(*                                                                         *)
(* Each part has its own specification; the variables of the other parts   *)
(* stay at their idle values.                                              *)
(*   SpecToken : requestToken, two callers, one shared store               *)
(*   SpecKey   : requestKey, the promise it returns                        *)
(*   SpecCodec : encrypt and decrypt on plaintexts and byte buffers        *)
(*   SpecPad   : encrypt on every length of the serialized plaintext       *)
(***************************************************************************)
EXTENDS Integers, Sequences, FiniteSets, TLC

VARIABLES
    \* ---- requestToken (index.js 164-192) ----
    localStorage,   \* this.localStorage is set (Client.build, line 42)
    max_age,        \* this.params.max_age, seconds
    store,          \* content of the key-value store: key -> entry
    inflight,       \* store.set calls issued and not yet applied by the store
    now,            \* Date.now(), milliseconds
    call,           \* per caller: the requestToken call in progress
    nCalls,         \* requestToken calls started so far
    nTokens,        \* tokens handed out by the verification collaborator
    storeOps,       \* store.get / store.set calls received by the store
    lastApplied,    \* per key: the store.set the store applied last
    overlapped      \* both callers waited for the collaborator at once

tokenVars == <<localStorage, max_age, store, inflight, now, call, nCalls,
               nTokens, storeOps, lastApplied, overlapped>>

VARIABLES
    \* ---- requestKey (index.js 143-156) ----
    kreq,           \* the requestKey call in progress: position, arguments, response
    promise,        \* the promise requestKey returned: state and value / reason
    chain,          \* the promise of fetch(..).then(..).then(..), which nobody reads
    nFetch,         \* fetch calls made for the call in progress
    nKeyCalls       \* requestKey calls started so far

keyVars == <<kreq, promise, chain, nFetch, nKeyCalls>>

VARIABLES
    \* ---- encrypt / decrypt (index.js 68-106) ----
    module,         \* this.module is loaded (loadModule, line 29)
    plaintext,      \* the plaintextObject handed to encrypt
    wire,           \* the padded bytes inside the ciphertext
    origin,         \* who built the ciphertext: "none", "encrypt" or "foreign"
    enc,            \* how encrypt ended
    dec             \* how decrypt ended, and the value it returned

codecVars == <<module, plaintext, wire, origin, enc, dec>>

VARIABLES
    \* ---- encrypt, seen by the length of the serialized plaintext ----
    pad             \* the length l, and what lines 74-91 did with it

padVars == <<pad>>

vars == <<tokenVars, keyVars, codecVars, padVars>>

exceptToken == <<keyVars, codecVars, padVars>>
exceptKey == <<tokenVars, codecVars, padVars>>
exceptCodec == <<tokenVars, keyVars, padVars>>
exceptPad == <<tokenVars, keyVars, codecVars>>

-----------------------------------------------------------------------------
(* Bounds of the model *)

MaxTicks == 1           \* the clock advances at most this often
TickMs == 1000          \* milliseconds per clock step
MaxCalls == 2           \* requestToken calls per behaviour
MaxKeyCalls == 2        \* requestKey calls per behaviour
MaxStrLen == 2          \* longest string among the enumerated short plaintexts
MaxForeignLen == 4      \* longest buffer a foreign ciphertext decrypts to
MaxLen == 65540         \* longest serialized plaintext in SpecPad

(* Program constants *)

MsPerSecond == 1000     \* Date#setSeconds works in seconds, Date.now() in ms
paddingBits == 9        \* line 78

-----------------------------------------------------------------------------
(* requestToken: index.js 164-192 *)

Callers == {"c1", "c2"}

\* Attribute values a caller passes (typedef Attribute, lines 3-7).
Attributes ==
    { [type |-> "email", value |-> "alice"],
      [type |-> "email", value |-> "bob"] }

\* JSON.stringify(attribute), line 168: the members in insertion order.
SerializeAttr(a) == <<"type", a.type, "value", a.value>>

Keys == { SerializeAttr(a) : a \in Attributes }

\* server-supplied max_age values (seconds), read by Client.build line 41
MaxAges == {1}

Times == { TickMs * k : k \in 1..(MaxTicks + 1) }

\* What cacheObj[serializedAttr] can be: undefined (no such key), or an object
\* with some of the members token / validUntil.  A member that is absent
\* holds 0 here and is not listed in `fields'.
Entry(fs, tok, vu) == [present |-> TRUE, fields |-> fs, token |-> tok, validUntil |-> vu]
Missing == [present |-> FALSE, fields |-> {}, token |-> 0, validUntil |-> 0]
EmptyObj == Entry({}, 0, 0)

\* Entries a store may hold before the first call.  Token 0 is a token of an
\* earlier session; validUntil is a Date value in ms.
InitEntries ==
    {Missing, EmptyObj, Entry({"token"}, 0, 0)}
      \cup { Entry({"token", "validUntil"}, 0, t) : t \in Times }

\* Variant: max_age added as if it were milliseconds.
ValidUntilNoUnit(t, age) == t + age

\* The store before the first call: at most one key has an entry.
InitStores ==
    { [k \in Keys |-> IF k = held THEN e ELSE Missing] : held \in Keys, e \in InitEntries }

\* new Date(Date.now()); t.setSeconds(t.getSeconds() + max_age)   (182-183)
ValidUntil(t, age) == t + age * MsPerSecond

\* Variant: the comparison of line 175 turned around.
CacheMissInverted(cached, t) ==
    \/ ~cached.present
    \/ cached.fields = {}
    \/ ("validUntil" \in cached.fields /\ t <= cached.validUntil)

\* The condition of the if at lines 172-176.
CacheMiss(cached, t) ==
    \/ ~cached.present
    \/ cached.fields = {}
    \/ ("validUntil" \in cached.fields /\ t >= cached.validUntil)

\* Variant: validUntil left out of the object written.
NewEntryTokenOnly(tok, t, age) == Entry({"token"}, tok, 0)

\* The object handed to store.set at lines 184-186.
NewEntry(tok, t, age) == Entry({"token", "validUntil"}, tok, ValidUntil(t, age))

Idle == [pc |-> "idle", attr |-> CHOOSE a \in Attributes : TRUE,
         cached |-> Missing, checkedAt |-> 0, invoked |-> 0, issued |-> 0,
         sets |-> 0, token |-> 0, failure |-> "none", error |-> "none",
         wrote |-> Missing, wroteKey |-> <<>>, wroteAt |-> 0]

Failures == {"abandoned", "network"}

InitToken ==
    /\ localStorage \in BOOLEAN
    /\ max_age \in MaxAges
    /\ store \in InitStores
    /\ (~localStorage => store = [k \in Keys |-> Missing])
    /\ inflight = {}
    /\ now = TickMs
    /\ call = [c \in Callers |-> Idle]
    /\ nCalls = 0
    /\ nTokens = 0
    /\ storeOps = [get |-> 0, set |-> 0]
    /\ lastApplied = [k \in Keys |-> Missing]
    /\ overlapped = FALSE

\* Variant: the check of line 165 left out, the store is always asked.
RequestTokenAlwaysStore(c, a) ==
    /\ call[c].pc = "idle"
    /\ nCalls < MaxCalls
    /\ nCalls' = nCalls + 1
    /\ call' = [call EXCEPT ![c] = [Idle EXCEPT !.pc = "awaitGet", !.attr = a]]
    /\ storeOps' = [storeOps EXCEPT !.get = @ + 1]
    /\ overlapped' = FALSE
    /\ UNCHANGED <<localStorage, max_age, store, inflight, now, nTokens, lastApplied>>
    /\ UNCHANGED exceptToken

\* Lines 165-169, up to the first await.  Without a store the collaborator is
\* invoked at once; with a store, store.get(serializedAttr) is issued.
RequestToken(c, a) ==
    /\ call[c].pc = "idle"
    /\ nCalls < MaxCalls
    /\ nCalls' = nCalls + 1
    /\ IF ~localStorage
         THEN /\ call' = [call EXCEPT ![c] =
                    [Idle EXCEPT !.pc = "awaitToken", !.attr = a, !.invoked = 1]]
              /\ UNCHANGED storeOps
         ELSE /\ call' = [call EXCEPT ![c] =
                    [Idle EXCEPT !.pc = "awaitGet", !.attr = a]]
              /\ storeOps' = [storeOps EXCEPT !.get = @ + 1]
    /\ overlapped' = FALSE
    /\ UNCHANGED <<localStorage, max_age, store, inflight, now, nTokens, lastApplied>>
    /\ UNCHANGED exceptToken

\* Lines 169-190: store.get resolves; cached is read and the if is decided.
\* On a miss _requestToken is invoked (line 181), on a hit cached.token is
\* returned (lines 189, 191).
GetResolves(c) ==
    /\ call[c].pc = "awaitGet"
    /\ LET cached == store[SerializeAttr(call[c].attr)]
       IN IF CacheMiss(cached, now)
            THEN /\ call' = [call EXCEPT ![c].pc = "awaitToken",
                                         ![c].cached = cached,
                                         ![c].checkedAt = now,
                                         ![c].invoked = @ + 1]
                 /\ overlapped' =
                       (overlapped \/ \E d \in Callers \ {c} :
                            /\ call[d].pc = "awaitToken"
                            /\ call[d].attr = call[c].attr)
            ELSE /\ call' = [call EXCEPT ![c].pc = "resolved",
                                         ![c].cached = cached,
                                         ![c].checkedAt = now,
                                         ![c].token = cached.token]
                 /\ UNCHANGED overlapped
    /\ UNCHANGED <<localStorage, max_age, store, inflight, now, nCalls, nTokens,
                   storeOps, lastApplied>>
    /\ UNCHANGED exceptToken

\* _requestToken resolves (lines 113-135) with a fresh session token.
\* Without a store the token is returned (line 165); with one, lines 181-191.
TokenResolves(c) ==
    /\ call[c].pc = "awaitToken"
    /\ nTokens' = nTokens + 1
    /\ LET tok == nTokens + 1
           entry == NewEntry(tok, now, max_age)
       IN IF ~localStorage
            THEN /\ call' = [call EXCEPT ![c].pc = "resolved",
                                         ![c].issued = tok,
                                         ![c].token = tok]
                 /\ UNCHANGED <<inflight, storeOps>>
            ELSE /\ call' = [call EXCEPT ![c].pc = "resolved",
                                         ![c].issued = tok,
                                         ![c].token = tok,
                                         ![c].sets = @ + 1,
                                         ![c].wrote = entry,
                                         ![c].wroteKey = SerializeAttr(call[c].attr),
                                         ![c].wroteAt = now]
                 /\ inflight' = inflight \cup
                       {[by |-> c, n |-> storeOps.set + 1,
                         key |-> SerializeAttr(call[c].attr), entry |-> entry]}
                 /\ storeOps' = [storeOps EXCEPT !.set = @ + 1]
    /\ UNCHANGED <<localStorage, max_age, store, now, nCalls, lastApplied, overlapped>>
    /\ UNCHANGED exceptToken

\* Variant: the entry is written although the collaborator failed.
TokenRejectsAndCaches(c, f) ==
    /\ call[c].pc = "awaitToken"
    /\ call' = [call EXCEPT ![c].pc = "rejected", ![c].failure = f, ![c].error = f,
                            ![c].sets = @ + 1]
    /\ inflight' = inflight \cup
          {[by |-> c, n |-> storeOps.set + 1, key |-> SerializeAttr(call[c].attr),
            entry |-> NewEntry(0, now, max_age)]}
    /\ storeOps' = [storeOps EXCEPT !.set = @ + 1]
    /\ UNCHANGED <<localStorage, max_age, store, now, nCalls, nTokens,
                   lastApplied, overlapped>>
    /\ UNCHANGED exceptToken

\* _requestToken rejects: the await at line 181 (or the return at line 165)
\* throws, and the async function rejects with the same reason.
TokenRejects(c, f) ==
    /\ call[c].pc = "awaitToken"
    /\ call' = [call EXCEPT ![c].pc = "rejected", ![c].failure = f, ![c].error = f]
    /\ UNCHANGED <<localStorage, max_age, store, inflight, now, nCalls, nTokens,
                   storeOps, lastApplied, overlapped>>
    /\ UNCHANGED exceptToken

\* The store applies one store.set it received: the listed key is overwritten.
\* Calls are applied in any order.
StoreApplies(w) ==
    /\ w \in inflight
    /\ store' = [store EXCEPT ![w.key] = w.entry]
    /\ lastApplied' = [lastApplied EXCEPT ![w.key] = w.entry]
    /\ inflight' = inflight \ {w}
    /\ UNCHANGED <<localStorage, max_age, now, call, nCalls, nTokens, storeOps, overlapped>>
    /\ UNCHANGED exceptToken

\* The caller has its answer; it may call again.
Settled(c) ==
    /\ call[c].pc \in {"resolved", "rejected"}
    /\ call' = [call EXCEPT ![c] = Idle]
    /\ UNCHANGED <<localStorage, max_age, store, inflight, now, nCalls, nTokens,
                   storeOps, lastApplied, overlapped>>
    /\ UNCHANGED exceptToken

\* Date.now() advances.
Tick ==
    /\ now < TickMs * (MaxTicks + 1)
    /\ now' = now + TickMs
    /\ UNCHANGED <<localStorage, max_age, store, inflight, call, nCalls, nTokens,
                   storeOps, lastApplied, overlapped>>
    /\ UNCHANGED exceptToken

NextToken ==
    \/ \E c \in Callers, a \in Attributes : RequestToken(c, a)
    \/ \E c \in Callers : GetResolves(c)
    \/ \E c \in Callers : TokenResolves(c)
    \/ \E c \in Callers, f \in Failures : TokenRejects(c, f)
    \/ \E w \in inflight : StoreApplies(w)
    \/ \E c \in Callers : Settled(c)
    \/ Tick

-----------------------------------------------------------------------------
(* requestKey: index.js 143-156 *)

SessionTokens == {"tokA", "tokB"}
Timestamps == {1600000000, 1600000001}
HttpStatuses == {200, 404, 500}
BodyStatuses == {"DONE_VALID", "DONE_INVALID", "PENDING"}
UserKeys == {"usk1", "usk2"}

\* Response bodies: a JSON object { status, key }, or text that is not JSON.
NotJson == [json |-> FALSE, status |-> "none", key |-> "none"]
Bodies == { [json |-> TRUE, status |-> s, key |-> k] : s \in BodyStatuses, k \in UserKeys }
             \cup {NotJson}

NoResponse == [status |-> 0, body |-> NotJson]
Pending == [state |-> "pending", value |-> "none"]

\* resolve / reject of the promise executor (line 145): only the first call
\* of either settles the promise.
Settle(p, state, value) ==
    IF p.state = "pending" THEN [state |-> state, value |-> value] ELSE p

IdleKey ==
    /\ kreq = [pc |-> "idle", token |-> "none", timestamp |-> 0, url |-> <<>>,
               resp |-> NoResponse, json |-> "none"]
    /\ promise = Pending
    /\ chain = "none"
    /\ nFetch = 0
    /\ nKeyCalls = 0

\* Lines 143-146: the promise is created and fetch is called once.
RequestKey(tok, ts) ==
    /\ kreq.pc \in {"idle", "done"}
    /\ nKeyCalls < MaxKeyCalls
    /\ nKeyCalls' = nKeyCalls + 1
    /\ kreq' = [pc |-> "fetching", token |-> tok, timestamp |-> ts,
                url |-> <<"v1", "request", tok, ts>>,
                resp |-> NoResponse, json |-> "none"]
    /\ promise' = Pending
    /\ chain' = "pending"
    /\ nFetch' = 1
    /\ UNCHANGED exceptKey

\* fetch fulfils with a response; the first then-callback runs (lines 147-149):
\* a status other than 200 rejects the promise and hands undefined on, a 200
\* hands on resp.json().
FetchFulfils(status, body) ==
    /\ kreq.pc = "fetching"
    /\ IF status # 200
         THEN /\ promise' = Settle(promise, "rejected", "not ok")
              /\ kreq' = [kreq EXCEPT !.pc = "then2",
                                      !.resp = [status |-> status, body |-> body],
                                      !.json = "undefined"]
         ELSE /\ promise' = promise
              /\ kreq' = [kreq EXCEPT !.pc = "json",
                                      !.resp = [status |-> status, body |-> body]]
    /\ UNCHANGED <<chain, nFetch, nKeyCalls>>
    /\ UNCHANGED exceptKey

\* fetch rejects (no connection): both then-callbacks are skipped, the chain
\* rejects, and nothing is attached to the chain (no catch, lines 146-154).
FetchRejects ==
    /\ kreq.pc = "fetching"
    /\ kreq' = [kreq EXCEPT !.pc = "done"]
    /\ chain' = "rejected"
    /\ UNCHANGED <<promise, nFetch, nKeyCalls>>
    /\ UNCHANGED exceptKey

\* resp.json() settles (line 148): it fulfils with the parsed body, or
\* rejects when the body is not JSON and the second callback is skipped.
JsonSettles ==
    /\ kreq.pc = "json"
    /\ IF kreq.resp.body.json
         THEN /\ kreq' = [kreq EXCEPT !.pc = "then2", !.json = "object"]
              /\ UNCHANGED chain
         ELSE /\ kreq' = [kreq EXCEPT !.pc = "done"]
              /\ chain' = "rejected"
    /\ UNCHANGED <<promise, nFetch, nKeyCalls>>
    /\ UNCHANGED exceptKey

\* The second then-callback (lines 150-154).  json.status of undefined throws.
SecondThen ==
    /\ kreq.pc = "then2"
    /\ kreq' = [kreq EXCEPT !.pc = "done"]
    /\ IF kreq.json = "undefined"
         THEN /\ chain' = "rejected"
              /\ UNCHANGED promise
         ELSE /\ chain' = "fulfilled"
              /\ promise' =
                    IF kreq.resp.body.status # "DONE_VALID"
                      THEN Settle(promise, "rejected", "not valid")
                      ELSE Settle(promise, "resolved", kreq.resp.body.key)
    /\ UNCHANGED <<nFetch, nKeyCalls>>
    /\ UNCHANGED exceptKey

NextKey ==
    \/ \E tok \in SessionTokens, ts \in Timestamps : RequestKey(tok, ts)
    \/ \E st \in HttpStatuses, b \in Bodies : FetchFulfils(st, b)
    \/ FetchRejects
    \/ JsonSettles
    \/ SecondThen

-----------------------------------------------------------------------------
(* JSON.stringify / TextEncoder / TextDecoder / JSON.parse, as used by      *)
(* encrypt (line 73) and decrypt (line 105).  Text is a sequence of code    *)
(* points (a well-formed string: no lone surrogates), bytes are 0..255.     *)

\* Code points the model names.
Ch == [quote |-> 34, backslash |-> 92, newline |-> 10, n |-> 110, minus |-> 45,
       zero |-> 48, nine |-> 57, comma |-> 44, colon |-> 58, lbracket |-> 91,
       rbracket |-> 93, lbrace |-> 123, rbrace |-> 125, space |-> 32,
       replacement |-> 65533]

\* Structured values: every value is [t, v] with t its type.
JNull == [t |-> "null", v |-> 0]
JBool(b) == [t |-> "bool", v |-> b]
JNum(n) == [t |-> "num", v |-> n]
JStr(cs) == [t |-> "str", v |-> cs]
JArr(vs) == [t |-> "arr", v |-> vs]
JObj(ms) == [t |-> "obj", v |-> ms]         \* ms: sequence of [k, val]
Member(k, val) == [k |-> k, val |-> val]

\* Sequences are built as SubSeq([i \in 1..n |-> e], 1, n), a tuple, and long
\* texts are converted by halves, which keeps the evaluation shallow.

\* "abc" as code points, for the literals null / true / false.
Lit(name) ==
    CASE name = "null"  -> <<110, 117, 108, 108>>
      [] name = "true"  -> <<116, 114, 117, 101>>
      [] name = "false" -> <<102, 97, 108, 115, 101>>

RECURSIVE Digits(_)
Digits(n) == IF n < 10 THEN <<Ch.zero + n>>
             ELSE Digits(n \div 10) \o <<Ch.zero + (n % 10)>>

\* QuoteJSONString: the escapes JSON.stringify writes for the code points used.
EscapeChar(c) ==
    IF c = Ch.quote THEN <<Ch.backslash, Ch.quote>>
    ELSE IF c = Ch.backslash THEN <<Ch.backslash, Ch.backslash>>
    ELSE IF c = Ch.newline THEN <<Ch.backslash, Ch.n>>
    ELSE <<c>>

\* the characters lo..hi of cs, escaped
RECURSIVE EscapeRange(_, _, _)
EscapeRange(cs, lo, hi) ==
    IF lo > hi THEN <<>>
    ELSE IF lo = hi THEN EscapeChar(cs[lo])
    ELSE LET mid == (lo + hi) \div 2
         IN EscapeRange(cs, lo, mid) \o EscapeRange(cs, mid + 1, hi)

QuoteString(cs) == <<Ch.quote>> \o EscapeRange(cs, 1, Len(cs)) \o <<Ch.quote>>

\* JSON.stringify(value): no white space, members in order.
RECURSIVE Stringify(_)
RECURSIVE StringifyItems(_, _)
RECURSIVE StringifyMembers(_, _)
Stringify(x) ==
    CASE x.t = "null" -> Lit("null")
      [] x.t = "bool" -> IF x.v THEN Lit("true") ELSE Lit("false")
      [] x.t = "num"  -> IF x.v < 0 THEN <<Ch.minus>> \o Digits(0 - x.v) ELSE Digits(x.v)
      [] x.t = "str"  -> QuoteString(x.v)
      [] x.t = "arr"  -> <<Ch.lbracket>> \o StringifyItems(x.v, 1) \o <<Ch.rbracket>>
      [] x.t = "obj"  -> <<Ch.lbrace>> \o StringifyMembers(x.v, 1) \o <<Ch.rbrace>>
StringifyItems(vs, i) ==
    IF i > Len(vs) THEN <<>>
    ELSE (IF i > 1 THEN <<Ch.comma>> ELSE <<>>)
           \o Stringify(vs[i]) \o StringifyItems(vs, i + 1)
StringifyMembers(ms, i) ==
    IF i > Len(ms) THEN <<>>
    ELSE (IF i > 1 THEN <<Ch.comma>> ELSE <<>>)
           \o QuoteString(ms[i].k) \o <<Ch.colon>> \o Stringify(ms[i].val)
           \o StringifyMembers(ms, i + 1)

\* TextEncoder.encode: UTF-8 of one code point.
Utf8Char(c) ==
    IF c < 128 THEN <<c>>
    ELSE IF c < 2048 THEN <<192 + (c \div 64), 128 + (c % 64)>>
    ELSE IF c < 65536
      THEN <<224 + (c \div 4096), 128 + ((c \div 64) % 64), 128 + (c % 64)>>
    ELSE <<240 + (c \div 262144), 128 + ((c \div 4096) % 64),
           128 + ((c \div 64) % 64), 128 + (c % 64)>>

\* the characters lo..hi of cs, encoded
RECURSIVE Utf8Range(_, _, _)
Utf8Range(cs, lo, hi) ==
    IF lo > hi THEN <<>>
    ELSE IF lo = hi THEN Utf8Char(cs[lo])
    ELSE LET mid == (lo + hi) \div 2
         IN Utf8Range(cs, lo, mid) \o Utf8Range(cs, mid + 1, hi)

TextEncode(cs) == Utf8Range(cs, 1, Len(cs))

\* TextDecoder.decode (utf-8, not fatal): a byte, or the cut-off start of a
\* character, that is not part of a well-formed character decodes to U+FFFD.
IsCont(b) == b >= 128 /\ b < 192
ByteAt(bs, i) == IF i >= 1 /\ i <= Len(bs) THEN bs[i] ELSE 0
Lead2(bs, i) == ByteAt(bs, i) >= 194 /\ ByteAt(bs, i) < 224 /\ IsCont(ByteAt(bs, i + 1))
\* a three-byte lead with a second byte it accepts (E0: A0..BF, ED: 80..9F)
Lead3(bs, i) ==
    /\ ByteAt(bs, i) >= 224 /\ ByteAt(bs, i) < 240
    /\ IsCont(ByteAt(bs, i + 1))
    /\ (ByteAt(bs, i) = 224 => ByteAt(bs, i + 1) >= 160)
    /\ (ByteAt(bs, i) = 237 => ByteAt(bs, i + 1) < 160)
\* a four-byte lead with a second byte it accepts (F0: 90..BF, F4: 80..8F)
Lead4(bs, i) ==
    /\ ByteAt(bs, i) >= 240 /\ ByteAt(bs, i) < 245
    /\ IsCont(ByteAt(bs, i + 1))
    /\ (ByteAt(bs, i) = 240 => ByteAt(bs, i + 1) >= 144)
    /\ (ByteAt(bs, i) = 244 => ByteAt(bs, i + 1) < 144)
\* byte i belongs to a character (or a cut-off character) that starts before it
Consumed(bs, i) ==
    /\ IsCont(ByteAt(bs, i))
    /\ \/ Lead2(bs, i - 1)
       \/ Lead3(bs, i - 1)
       \/ Lead3(bs, i - 2)
       \/ Lead4(bs, i - 1)
       \/ Lead4(bs, i - 2)
       \/ (Lead4(bs, i - 3) /\ IsCont(ByteAt(bs, i - 1)))
DecodeAt(bs, i) ==
    IF bs[i] < 128 THEN bs[i]
    ELSE IF Lead2(bs, i) THEN (bs[i] - 192) * 64 + (bs[i + 1] - 128)
    ELSE IF Lead3(bs, i) /\ IsCont(ByteAt(bs, i + 2))
      THEN (bs[i] - 224) * 4096 + (bs[i + 1] - 128) * 64 + (bs[i + 2] - 128)
    ELSE IF Lead4(bs, i) /\ IsCont(ByteAt(bs, i + 2)) /\ IsCont(ByteAt(bs, i + 3))
      THEN (bs[i] - 240) * 262144 + (bs[i + 1] - 128) * 4096
             + (bs[i + 2] - 128) * 64 + (bs[i + 3] - 128)
    ELSE Ch.replacement

TextDecode(bs) ==
    LET starts == SelectSeq([i \in 1..Len(bs) |-> i], LAMBDA i : ~Consumed(bs, i))
    IN SubSeq([k \in 1..Len(starts) |-> DecodeAt(bs, starts[k])], 1, Len(starts))

\* ---- JSON.parse ----
\* A parse result: ok, the value, and the position after it.
Bad == [ok |-> FALSE, v |-> JNull, next |-> 0]
Good(v, next) == [ok |-> TRUE, v |-> v, next |-> next]

At(s, i) == IF i >= 1 /\ i <= Len(s) THEN s[i] ELSE 0
IsWs(c) == c \in {32, 9, 10, 13}
IsDigit(c) == c >= Ch.zero /\ c <= Ch.nine

RECURSIVE SkipWs(_, _)
SkipWs(s, i) == IF IsWs(At(s, i)) THEN SkipWs(s, i + 1) ELSE i

\* the number of backslashes that end at position i, not looking before lo
RECURSIVE BackslashRun(_, _, _)
BackslashRun(s, i, lo) ==
    IF i >= lo /\ At(s, i) = Ch.backslash THEN 1 + BackslashRun(s, i - 1, lo) ELSE 0

SetMin(S) == CHOOSE m \in S : \A k \in S : m <= k

\* the character an escape sequence \c stands for; 0 when there is none
\* (\uXXXX is not produced for the code points of the model)
Unescape(c) ==
    IF c \in {34, 92, 47} THEN c
    ELSE IF c = 110 THEN 10
    ELSE IF c = 116 THEN 9
    ELSE IF c = 114 THEN 13
    ELSE IF c = 98 THEN 8
    ELSE IF c = 102 THEN 12
    ELSE 0

\* A string that opens at position i (s[i] is the quote).
ParseString(s, i) ==
    LET closers == { j \in (i + 1)..Len(s) :
                        s[j] = Ch.quote /\ BackslashRun(s, j - 1, i + 1) % 2 = 0 }
    IN IF closers = {} THEN Bad
       ELSE
         LET close == SetMin(closers)
             \* a backslash that opens an escape sequence
             Opens(k) == s[k] = Ch.backslash /\ BackslashRun(s, k - 1, i + 1) % 2 = 0
             kept == SelectSeq([k \in 1..(close - i - 1) |-> i + k],
                               LAMBDA k : ~Opens(k))
             CharAt(k) == IF k > i + 1 /\ Opens(k - 1) THEN Unescape(s[k]) ELSE s[k]
             text == SubSeq([k \in 1..Len(kept) |-> CharAt(kept[k])], 1, Len(kept))
         IN IF \E k \in 1..Len(text) : text[k] = 0
                   \/ (text[k] < 32 /\ ~(kept[k] > i + 1 /\ Opens(kept[k] - 1)))
              THEN Bad
              ELSE Good(JStr(text), close + 1)

RECURSIVE DigitRun(_, _)
DigitRun(s, i) == IF IsDigit(At(s, i)) THEN DigitRun(s, i + 1) ELSE i

RECURSIVE DigitsValue(_, _, _)
DigitsValue(s, lo, hi) ==
    IF lo > hi THEN 0 ELSE DigitsValue(s, lo, hi - 1) * 10 + (s[hi] - Ch.zero)

\* An integer: -? (0 | [1-9][0-9]*).  Fractions and exponents are not read.
ParseNumber(s, i) ==
    LET neg == At(s, i) = Ch.minus
        lo == IF neg THEN i + 1 ELSE i
        hi == IF At(s, lo) = Ch.zero THEN lo + 1 ELSE DigitRun(s, lo)
    IN IF hi = lo THEN Bad
       ELSE Good(JNum(IF neg THEN 0 - DigitsValue(s, lo, hi - 1)
                             ELSE DigitsValue(s, lo, hi - 1)), hi)

ParseLit(s, i, name, v) ==
    IF i + Len(Lit(name)) - 1 <= Len(s) /\ SubSeq(s, i, i + Len(Lit(name)) - 1) = Lit(name)
      THEN Good(v, i + Len(Lit(name)))
      ELSE Bad

RECURSIVE ParseValue(_, _)
RECURSIVE ParseItems(_, _, _)
RECURSIVE ParseMembers(_, _, _)
ParseValue(s, i0) ==
    LET i == SkipWs(s, i0)
        c == At(s, i)
    IN IF i > Len(s) THEN Bad
       ELSE IF c = Ch.quote THEN ParseString(s, i)
       ELSE IF c = Ch.minus \/ IsDigit(c) THEN ParseNumber(s, i)
       ELSE IF c = 110 THEN ParseLit(s, i, "null", JNull)
       ELSE IF c = 116 THEN ParseLit(s, i, "true", JBool(TRUE))
       ELSE IF c = 102 THEN ParseLit(s, i, "false", JBool(FALSE))
       ELSE IF c = Ch.lbracket
         THEN IF At(s, SkipWs(s, i + 1)) = Ch.rbracket
                THEN Good(JArr(<<>>), SkipWs(s, i + 1) + 1)
                ELSE ParseItems(s, i + 1, <<>>)
       ELSE IF c = Ch.lbrace
         THEN IF At(s, SkipWs(s, i + 1)) = Ch.rbrace
                THEN Good(JObj(<<>>), SkipWs(s, i + 1) + 1)
                ELSE ParseMembers(s, i + 1, <<>>)
       ELSE Bad
\* the items of an array from position i on, `done' already read
ParseItems(s, i, done) ==
    LET item == ParseValue(s, i)
        j == SkipWs(s, item.next)
    IN IF ~item.ok THEN Bad
       ELSE IF At(s, j) = Ch.comma THEN ParseItems(s, j + 1, Append(done, item.v))
       ELSE IF At(s, j) = Ch.rbracket THEN Good(JArr(Append(done, item.v)), j + 1)
       ELSE Bad
\* the members of an object from position i on
ParseMembers(s, i, done) ==
    LET ki == SkipWs(s, i)
        key == IF At(s, ki) = Ch.quote THEN ParseString(s, ki) ELSE Bad
        ci == SkipWs(s, key.next)
        val == IF key.ok /\ At(s, ci) = Ch.colon THEN ParseValue(s, ci + 1) ELSE Bad
        j == SkipWs(s, val.next)
    IN IF ~val.ok THEN Bad
       ELSE IF At(s, j) = Ch.comma
         THEN ParseMembers(s, j + 1, Append(done, Member(key.v.v, val.v)))
       ELSE IF At(s, j) = Ch.rbrace
         THEN Good(JObj(Append(done, Member(key.v.v, val.v))), j + 1)
       ELSE Bad

\* JSON.parse(text): one value, then only white space; otherwise SyntaxError.
JsonParse(s) ==
    LET r == ParseValue(s, 1)
    IN IF r.ok /\ SkipWs(s, r.next) = Len(s) + 1 THEN r ELSE Bad

-----------------------------------------------------------------------------
(* encrypt / decrypt: index.js 68-106 *)

ShiftRight(x, k) == x \div (2 ^ k)      \* x >> k, x >= 0
ShiftLeft(x, k) == x * (2 ^ k)          \* x << k, the result below 2^31

\* Variant: the two bytes of the prefix not taken off the limit.
TooLargeWholeRange(l) == l >= 65536

\* line 75
TooLarge(l) == l >= 65536 - 2

\* Variant: the block count taken from l instead of l + 1.
PaddedLengthOfLen(l) == ShiftLeft(ShiftRight(l, paddingBits) + 1, paddingBits)

\* line 79
PaddedLength(l) == ShiftLeft(ShiftRight(l + 1, paddingBits) + 1, paddingBits)

\* Variant: the prefix bytes in the other order.
LengthPrefixSwapped(l) == <<l % 256, ShiftRight(l, 8) % 256>>

\* lines 82-83: the two bytes stored into the Uint8Array
LengthPrefix(l) == <<ShiftRight(l, 8) % 256, l % 256>>

\* lines 80-84: the zero-filled buffer, the prefix, the payload from offset 2.
\* TypedArray.prototype.set throws a RangeError when the payload does not fit.
PadBuffer(objectBytes) ==
    LET l == Len(objectBytes)
        n == PaddedLength(l)
        prefix == LengthPrefix(l)
    IN IF l > n - 2 THEN [ok |-> FALSE, buf |-> <<>>]
       ELSE [ok |-> TRUE,
             buf |-> SubSeq([i \in 1..n |-> IF i <= 2 THEN prefix[i]
                                             ELSE IF i - 2 <= l THEN objectBytes[i - 2]
                                             ELSE 0], 1, n)]

\* line 103: (buf[0] << 8) | buf[1]; a byte that is not there reads undefined,
\* which the bit operators take as 0
ReadLength(buf) == ShiftLeft(ByteAt(buf, 1), 8) + ByteAt(buf, 2)

\* TypedArray.prototype.slice(from, to), 0 <= from <= to: the end is clamped
\* to the length of the array
Slice(buf, from, to) ==
    LET end == IF to < Len(buf) THEN to ELSE Len(buf)
    IN IF from >= end THEN <<>> ELSE SubSeq(buf, from + 1, end)

\* TextDecoder drops a leading byte order mark
DropBOM(bs) ==
    IF Len(bs) >= 3 /\ SubSeq(bs, 1, 3) = <<239, 187, 191>>
      THEN SubSeq(bs, 4, Len(bs)) ELSE bs

\* lines 103-105
DecodePayload(buf) ==
    JsonParse(TextDecode(DropBOM(Slice(buf, 2, 2 + ReadLength(buf)))))

\* Code points of the enumerated short strings: a, ", \, newline, e-acute,
\* euro, and U+1F600 (four bytes in UTF-8).
StrChars == {97, 34, 92, 10, 233, 8364, 128512}

RECURSIVE SeqsUpTo(_, _)
SeqsUpTo(S, n) ==
    IF n = 0 THEN {<<>>}
    ELSE LET shorter == SeqsUpTo(S, n - 1)
         IN shorter \cup { Append(q, c) : q \in shorter, c \in S }

Repeat(c, n) == SubSeq([i \in 1..n |-> c], 1, n)

Atoms == {JNull, JBool(TRUE), JBool(FALSE), JNum(0), JNum(7), JNum(-12), JNum(305)}

ShortStrings == { JStr(cs) : cs \in SeqsUpTo(StrChars, MaxStrLen) }

Compounds ==
    {JArr(<<>>), JObj(<<>>), JArr(<<JArr(<<>>), JObj(<<>>)>>)}
      \cup { JArr(<<a>>) : a \in Atoms }
      \cup { JArr(<<a, JStr(<<34, 233>>)>>) : a \in Atoms }
      \cup { JObj(<<Member(<<97>>, a)>>) : a \in Atoms }
      \cup { JObj(<<Member(<<92>>, a), Member(<<97, 233>>, JArr(<<a, a>>))>>) : a \in Atoms }

\* Long strings: the serialized lengths 256, 510, 511, 512, 65533 (the
\* longest that is accepted) and 65534 (the shortest that is refused), and
\* a string whose characters take two bytes each.
LongStrings ==
    { JStr(Repeat(97, n)) : n \in {254, 508, 509, 510, 65531, 65532} }
      \cup { JStr(Repeat(233, 300)) }

Plaintexts == Atoms \cup ShortStrings \cup Compounds \cup LongStrings

\* What a ciphertext of another sender may decrypt to.
ForeignBytes == {0, 1, 49, 91, 93}
ForeignBuffers == SeqsUpTo(ForeignBytes, MaxForeignLen)

NoValue == [state |-> "none", v |-> JNull]

InitCodec ==
    /\ module \in BOOLEAN
    /\ plaintext = JNull
    /\ wire = <<>>
    /\ origin = "none"
    /\ enc = "none"
    /\ dec = NoValue

IdleCodec ==
    /\ module = FALSE
    /\ plaintext = JNull
    /\ wire = <<>>
    /\ origin = "none"
    /\ enc = "none"
    /\ dec = NoValue

\* encrypt(attribute, plaintextObject), lines 68-92.  module.encrypt keeps
\* the padded bytes inside the ciphertext.
Encrypt(x) ==
    /\ origin = "none" /\ enc = "none"
    /\ plaintext' = x
    /\ IF ~module
         THEN /\ enc' = "WASM module not loaded yet"
              /\ UNCHANGED <<wire, origin>>
         ELSE LET objectBytes == TextEncode(Stringify(x))
                  padded == PadBuffer(objectBytes)
              IN IF TooLarge(Len(objectBytes))
                   THEN /\ enc' = "Too large to encrypt"
                        /\ UNCHANGED <<wire, origin>>
                   ELSE IF ~padded.ok
                     THEN /\ enc' = "RangeError"
                          /\ UNCHANGED <<wire, origin>>
                     ELSE /\ enc' = "ok"
                          /\ wire' = padded.buf
                          /\ origin' = "encrypt"
    /\ UNCHANGED <<module, dec>>
    /\ UNCHANGED exceptCodec

\* A ciphertext arrives that some other sender built.
Receive(buf) ==
    /\ origin = "none" /\ enc = "none"
    /\ wire' = buf
    /\ origin' = "foreign"
    /\ UNCHANGED <<module, plaintext, enc, dec>>
    /\ UNCHANGED exceptCodec

\* decrypt(usk, irmasealBytestream), lines 100-106.  module.decrypt returns
\* the padded bytes of the ciphertext.
Decrypt ==
    /\ origin # "none" /\ dec.state = "none"
    /\ IF ~module
         THEN dec' = [state |-> "WASM module not loaded yet", v |-> JNull]
         ELSE LET r == DecodePayload(wire)
              IN dec' = IF r.ok THEN [state |-> "value", v |-> r.v]
                                ELSE [state |-> "SyntaxError", v |-> JNull]
    /\ UNCHANGED <<module, plaintext, wire, origin, enc>>
    /\ UNCHANGED exceptCodec

NextCodec ==
    \/ \E x \in Plaintexts : Encrypt(x)
    \/ \E buf \in ForeignBuffers : Receive(buf)
    \/ Decrypt

\* ---- encrypt, by the length of the serialized plaintext ----

NoPad == [l |-> 0, outcome |-> "none", allocated |-> 0, prefix |-> <<0, 0>>,
          moduleCalls |-> 0]

IdlePad == pad = NoPad

\* Lines 74-91 for a plaintext whose serialization has l bytes.
EncryptLength(l) ==
    /\ pad.outcome = "none"
    /\ pad' = IF TooLarge(l)
                THEN [NoPad EXCEPT !.l = l, !.outcome = "Too large to encrypt"]
                ELSE IF l > PaddedLength(l) - 2
                  THEN [NoPad EXCEPT !.l = l, !.outcome = "RangeError",
                                     !.allocated = PaddedLength(l),
                                     !.prefix = LengthPrefix(l)]
                  ELSE [l |-> l, outcome |-> "ok", allocated |-> PaddedLength(l),
                        prefix |-> LengthPrefix(l), moduleCalls |-> 1]
    /\ UNCHANGED exceptPad

\* encrypt is applied once, to a plaintext of any length up to MaxLen
Lengths == IF pad.outcome = "none" THEN 0..MaxLen ELSE {}

NextPad == \E l \in Lengths : EncryptLength(l)

\* The token cache at rest, for the other specifications.
IdleToken ==
    /\ localStorage = FALSE
    /\ max_age = CHOOSE a \in MaxAges : TRUE
    /\ store = [k \in Keys |-> Missing]
    /\ inflight = {}
    /\ now = TickMs
    /\ call = [c \in Callers |-> Idle]
    /\ nCalls = 0
    /\ nTokens = 0
    /\ storeOps = [get |-> 0, set |-> 0]
    /\ lastApplied = [k \in Keys |-> Missing]
    /\ overlapped = FALSE

-----------------------------------------------------------------------------
(* Properties *)

\* The cache entry is valid: it exists, has at least one member, and
\* validUntil is absent or still ahead of the time t.
ValidCached(e, t) ==
    /\ e.present
    /\ e.fields # {}
    /\ ("validUntil" \notin e.fields \/ t < e.validUntil)

WellFormed(e) == e.present /\ e.fields = {"token", "validUntil"}

\* C3 - cache hit: with a store, a call that read a valid entry returns that
\* entry's token, never invoked the collaborator and issued no store.set.
CacheHitReturnsCached ==
    \A c \in Callers :
        (/\ localStorage
         /\ call[c].pc = "resolved"
         /\ ValidCached(call[c].cached, call[c].checkedAt))
        => /\ call[c].token = call[c].cached.token
           /\ call[c].invoked = 0
           /\ call[c].issued = 0
           /\ call[c].sets = 0

\* a call was answered from an entry whose validUntil lies ahead
CacheHitReached ==
    \E c \in Callers :
        /\ localStorage
        /\ call[c].pc = "resolved"
        /\ ValidCached(call[c].cached, call[c].checkedAt)
        /\ "validUntil" \in call[c].cached.fields
        /\ call[c].token = call[c].cached.token

FailureLeavesCacheUntouched ==
    /\ [](\A c \in Callers :
            call[c].pc = "rejected"
            => /\ call[c].failure \in Failures
               /\ call[c].error = call[c].failure
               /\ call[c].invoked = 1
               /\ call[c].sets = 0)
    /\ [][\A c \in Callers :
            (call[c].pc = "awaitToken" /\ call'[c].pc = "rejected")
            => /\ store' = store
               /\ inflight' = inflight
               /\ storeOps' = storeOps]_vars

\* with a store, a call that missed the cache was rejected
RejectedAfterMiss ==
    \E c \in Callers :
        /\ localStorage
        /\ call[c].pc = "rejected"
        /\ call[c].cached.present
        /\ call[c].error \in Failures

\* C6 - no store: every call invokes the collaborator exactly once and
\* returns its token, and the store never receives a get or a set.
NoStoreAlwaysInvokes ==
    ~localStorage =>
        /\ storeOps = [get |-> 0, set |-> 0]
        /\ inflight = {}
        /\ store = [k \in Keys |-> Missing]
        /\ \A c \in Callers :
              /\ call[c].pc # "awaitGet"
              /\ call[c].pc \in {"awaitToken", "resolved", "rejected"}
                    => call[c].invoked = 1
              /\ call[c].pc = "resolved"
                    => call[c].issued > 0 /\ call[c].token = call[c].issued

\* without a store, the last call of a sequence of calls returned a token
NoStoreSequenceReached ==
    /\ ~localStorage
    /\ nCalls = MaxCalls
    /\ nTokens = MaxCalls
    /\ \E c \in Callers : call[c].pc = "resolved" /\ call[c].token = MaxCalls

\* C10 - concurrent misses: two calls for the same attribute that both read
\* a missing or expired entry and waited for the collaborator at the same
\* time both invoked it, both return the token of their own invocation and
\* both issued a store.set; once the store has applied both (and received no
\* other), the entry is well formed and is the one of the set applied last.
ConcurrentMissesBenign ==
    LET c1 == CHOOSE c \in Callers : TRUE
        c2 == CHOOSE c \in Callers : c # c1
        key == SerializeAttr(call[c1].attr)
    IN (/\ localStorage
        /\ overlapped
        /\ call[c1].attr = call[c2].attr
        /\ \A c \in Callers :
              /\ call[c].pc = "resolved"
              /\ ~ValidCached(call[c].cached, call[c].checkedAt))
       => /\ \A c \in Callers :
                /\ call[c].invoked = 1
                /\ call[c].issued > 0
                /\ call[c].token = call[c].issued
                /\ call[c].sets = 1
                /\ WellFormed(call[c].wrote)
                /\ call[c].wrote.token = call[c].issued
          /\ call[c1].issued # call[c2].issued
          /\ (storeOps.set = 2 /\ \A w \in inflight : w.key # key)
                => /\ store[key] \in {call[c1].wrote, call[c2].wrote}
                   /\ store[key] = lastApplied[key]
                   /\ WellFormed(store[key])

\* two overlapping misses, both writes applied, the second caller's last
ConcurrentMissesReached ==
    LET c1 == CHOOSE c \in Callers : TRUE
        c2 == CHOOSE c \in Callers : c # c1
        key == SerializeAttr(call[c1].attr)
    IN /\ localStorage
       /\ overlapped
       /\ call[c1].attr = call[c2].attr
       /\ \A c \in Callers : call[c].pc = "resolved" /\ call[c].sets = 1
       /\ inflight = {}
       /\ call[c1].issued > call[c2].issued
       /\ store[key] = call[c2].wrote

\* C8 - key request outcome: once the request has run its course the
\* promise is settled; it is resolved with the key exactly when the response
\* status is 200 and the body status is DONE_VALID, rejected otherwise, and
\* fetch was called once.
KeyRequestSettles ==
    kreq.pc = "done" =>
        /\ promise.state \in {"resolved", "rejected"}
        /\ promise.state = "resolved"
              <=> (/\ kreq.resp.status = 200
                   /\ kreq.resp.body.json
                   /\ kreq.resp.body.status = "DONE_VALID")
        /\ promise.state = "resolved" => promise.value = kreq.resp.body.key
        /\ nFetch = 1

\* C1 - round trip: what decrypt returns for a ciphertext built by encrypt
\* is the plaintext that encrypt was given.
RoundTrip ==
    (origin = "encrypt" /\ dec.state # "none")
        => dec = [state |-> "value", v |-> plaintext]

\* a plaintext that fills more than one block made the round trip
RoundTripReached ==
    /\ origin = "encrypt"
    /\ Len(wire) > 2 ^ paddingBits
    /\ dec.state = "value"
    /\ dec.v = plaintext
    /\ plaintext.t = "str"

\* C7 - truncated payloads: when the length prefix says more bytes than the
\* buffer holds after the prefix, decrypt fails instead of returning a value.
TruncatedPayloadRejected ==
    (/\ module
     /\ dec.state # "none"
     /\ ReadLength(wire) + 2 > Len(wire))
        => dec.state # "value"

\* C2 (as stated) - the buffer is a multiple of 512 bytes long and at least
\* len + 2 + 1, one byte more than prefix and payload need.
PaddingLeavesSlack ==
    pad.allocated > 0 =>
        /\ pad.allocated % (2 ^ paddingBits) = 0
        /\ pad.allocated >= pad.l + 2 + 1

\* C2 (amended) - the buffer is a multiple of 512 bytes long and at least
\* len + 2: prefix and payload always fit.
PaddingFitsPayload ==
    pad.allocated > 0 =>
        /\ pad.allocated % (2 ^ paddingBits) = 0
        /\ pad.allocated >= pad.l + 2

\* a payload of 510 bytes fills its one block, with no byte to spare
FullBlockReached ==
    /\ pad.outcome = "ok"
    /\ pad.l = 2 ^ paddingBits - 2
    /\ pad.allocated = pad.l + 2

\* C9 - size boundary: a length of 65534 or more fails as too large with no
\* buffer allocated and the encryption primitive not called; every length
\* below gets a buffer, and its prefix bytes spell the length.
SizeBoundary ==
    pad.outcome # "none" =>
        IF pad.l >= 65534
          THEN /\ pad.outcome = "Too large to encrypt"
               /\ pad.allocated = 0
               /\ pad.moduleCalls = 0
          ELSE /\ pad.outcome = "ok"
               /\ pad.allocated >= pad.l + 2
               /\ pad.moduleCalls = 1
               /\ pad.prefix[1] \in 0..255 /\ pad.prefix[2] \in 0..255
               /\ pad.prefix[1] * 256 + pad.prefix[2] = pad.l

\* the shortest plaintext that is refused, and the longest that is accepted
SizeBoundaryReached ==
    \/ pad.l = 65534 /\ pad.outcome = "Too large to encrypt"
    \/ pad.l = 65533 /\ pad.outcome = "ok" /\ pad.allocated = 65536

-----------------------------------------------------------------------------
(* Specifications *)

InitSpecToken == InitToken /\ IdleKey /\ IdleCodec /\ IdlePad
InitSpecKey == IdleToken /\ IdleKey /\ IdleCodec /\ IdlePad
InitSpecCodec == IdleToken /\ IdleKey /\ InitCodec /\ IdlePad
InitSpecPad == IdleToken /\ IdleKey /\ IdleCodec /\ IdlePad

SpecToken == InitSpecToken /\ [][NextToken]_vars
SpecKey == InitSpecKey /\ [][NextKey]_vars
SpecCodec == InitSpecCodec /\ [][NextCodec]_vars
SpecPad == InitSpecPad /\ [][NextPad]_vars

=============================================================================
